---- MODULE Spec2Model ----
(***************************************************************************)
(* Model of source/evaluations/paper_cvprw_2017.py: the figure composer of *)
(* the 4D Light Field Benchmark evaluation toolkit.                        *)
(*                                                                         *)
(* One process calls the figure-producing routines one after the other.   *)
(* A routine is modelled by a start action (everything up to its first     *)
(* loop), one action per loop iteration and one action for the save.       *)
(* Integer division is floor division (the module is Python 2 code: it     *)
(* indexes the grid with idx / n_entries_per_row and converts to float     *)
(* explicitly where it wants a real quotient).                             *)
(*                                                                         *)
(* The collaborators (plotting, misc, metrics, radar_chart, bad_pix_series,*)
(* metric_overviews) are not part of the file.  They are modelled by what  *)
(* the file hands them and by three facts taken from their description:    *)
(* save_tight_figure closes the figure it saves (FigsAfterSave), pixelize  *)
(* returns an obscured rendering (Pixelize), and get_stratified_metrics    *)
(* returns the nine metrics of the stratified scenes (stratified_metrics). *)
(* Any collaborator call may raise (collaborator_raises).                  *)
(***************************************************************************)
EXTENDS Integers, Sequences, FiniteSets, TLC

\* ---------------------------------------------------------------- bounds
MaxAlgos == 3
MaxRows == 3
MaxScenes == 2
MaxDisp == 1
MaxOpenFigs == 1

\* ------------------------------------------------------------- constants
n_vis_types == 2

\* value of a loop variable whose name is not bound yet
Unbound == -1

\* a disparity field of n pixels with disparities 0..MaxDisp.  The arithmetic
\* on fields is elementwise, so one pixel shows every case of it; the routine
\* that crops a window gets two pixels, so that the window's offset matters.
Fields(n) == [1..n -> 0..MaxDisp]
CroppedFields == Fields(2)
PlainFields == Fields(1)
NoImage == <<>>
Categories == {"training", "test"}
NoLast == [op |-> "none", entry |-> 0, median_for |-> "none", algo_for |-> 0,
           gt |-> NoImage, median_result |-> NoImage, algo_result |-> NoImage,
           lo |-> 0, median_diff |-> <<>>]

VARIABLES
    pc,            \* position of the process: "idle", a loop, "done", "raised"
    error,         \* the exception that ended the call, "none" without one
    op,            \* the routine being executed
    scenes,        \* argument: sequence of scenes [hidden, category]
    n_algos,       \* argument: len(algorithms)
    n_rows,        \* argument of plot_discont_overview
    with_gt_row,   \* argument of plot_median_comparisons
    log_runtime,   \* argument of plot_radar_charts
    crop,          \* arguments xmin, ww of plot_discont_overview
    rows, cols,    \* the grid handed to prepare_grid / prepare_grid_with_colorbar
    idx_s, idx_a,  \* loop variables (Unbound: the name is not bound yet)
    next_s, next_a, \* positions of the enumerate() iterators of the two loops
    gt, median_result, \* locals holding disparity fields
    claimed,       \* sequence of [idx, role, entry]: grid[...] uses, in call order
    ylabels,       \* grid indices whose axes received plt.ylabel
    shown,         \* plot_scene_overview: imshow calls [idx, what, scene, pixelized]
    pixelized,     \* plot_scene_overview: scene positions passed to plotting.pixelize
    last,          \* the last median_diff handed to imshow for the current scene,
                   \* with its operands
    delegated,     \* calls forwarded to collaborator routines, in call order
    saved,         \* figure names handed to plotting.save_tight_figure in this call
    fig_open       \* figures created by plt.figure and not yet closed

vars == <<pc, error, op, scenes, n_algos, n_rows, with_gt_row, log_runtime, crop,
          rows, cols,
          idx_s, idx_a, next_s, next_a, gt, median_result, claimed, ylabels,
          shown, pixelized, last, delegated, saved, fig_open>>

\* ------------------------------------------------------------ pure helpers
Abs(x) == IF x < 0 THEN -x ELSE x

\* int(np.ceil(a / float(b))) for a >= 0, b >= 1
CeilDiv(a, b) == (a + b - 1) \div b

\* python slice img[lo0 : lo0 + w] of n pixels (0-based, clipped to n), as the
\* sequence of 1-based source positions it keeps
SliceIdx(n, lo0, w) ==
    LET hi == IF lo0 + w < n THEN lo0 + w ELSE n
    IN  [k \in 1..(IF hi > lo0 THEN hi - lo0 ELSE 0) |-> lo0 + k]

\* the difference without the absolute values
MedianDiff_signed(m, g, a) == [p \in 1..Len(g) |-> (m[p] - g[p]) - (a[p] - g[p])]

\* np.abs(median_result - gt) - np.abs(algo_result - gt), elementwise
MedianDiff(m, g, a) == [p \in 1..Len(g) |-> Abs(m[p] - g[p]) - Abs(a[p] - g[p])]

\* one use of grid[i]: the panel of entry `entry` in the role `role`
Claim(i, role, entry) == [idx |-> i, role |-> role, entry |-> entry]

\* plotting.save_tight_figure(fig, ...) writes the file and closes fig: the
\* number of open figures after it
FigsAfterSave(n) == n - 1

\* ------------------------------------------------- plot_discont_overview
n_entries_per_row == CeilDiv(n_algos + 1, n_rows)

\* the label test counting columns from one
add_ylabel_one_based(idx) == (idx % n_entries_per_row) = 1

add_ylabel(idx) == (idx % n_entries_per_row) = 0
add_colorbar(idx) == ((idx + 1) % n_entries_per_row) = 0

\* the row of the entry without the factor n_vis_types
idx_row_unscaled(idx) == idx \div n_entries_per_row

idx_row(idx) == (idx \div n_entries_per_row) * n_vis_types
idx_col(idx) == idx % n_entries_per_row

DiscontPanels(idx) ==
    LET top == idx_row(idx) * cols + idx_col(idx)
        bot == (idx_row(idx) + 1) * cols + idx_col(idx)
    IN  <<Claim(top, "disp", idx)>>
        \o (IF add_colorbar(idx) THEN <<Claim(top + 1, "cb_disp", idx)>> ELSE <<>>)
        \o <<Claim(bot, "diff", idx)>>
        \o (IF add_colorbar(idx) THEN <<Claim(bot + 1, "cb_diff", idx)>> ELSE <<>>)

DiscontLabels(idx) ==
    IF add_ylabel(idx)
    THEN {idx_row(idx) * cols + idx_col(idx), (idx_row(idx) + 1) * cols + idx_col(idx)}
    ELSE {}

plot_discont_overview_start ==
    /\ pc = "idle"
    /\ fig_open < MaxOpenFigs
    /\ \E N \in 0..MaxAlgos, nr \in 1..MaxRows, xmin \in 0..1, ww \in 1..2,
          g \in CroppedFields, m \in CroppedFields :
        LET epr == CeilDiv(N + 1, nr)
            c == epr + 1
        IN  /\ n_algos' = N
            /\ n_rows' = nr
            /\ crop' = [xmin |-> xmin, ww |-> ww]
            /\ rows' = n_vis_types * nr
            /\ cols' = c
            /\ gt' = g
            /\ median_result' = m
            /\ claimed' = <<Claim(0, "center", 0), Claim(c, "label", 0)>>
            /\ ylabels' = {0, c}
    /\ op' = "plot_discont_overview"
    /\ fig_open' = fig_open + 1
    /\ next_a' = 0
    /\ pc' = "discont_loop"
    /\ UNCHANGED <<error, scenes, with_gt_row, log_runtime, idx_s, idx_a,
                   next_s, shown, pixelized, last, delegated, saved>>

plot_discont_overview_iter ==
    /\ pc = "discont_loop"
    /\ next_a < n_algos
    /\ \E algo_result \in CroppedFields :
        LET idx == next_a + 1
            win == SliceIdx(Len(gt), crop.xmin, crop.ww)
            full == MedianDiff(median_result, gt, algo_result)
        IN  /\ claimed' = claimed \o DiscontPanels(idx)
            /\ ylabels' = ylabels \cup DiscontLabels(idx)
            /\ last' = [op |-> op, entry |-> idx,
                        median_for |-> "PerPixMedianDiff", algo_for |-> next_a,
                        gt |-> gt, median_result |-> median_result,
                        algo_result |-> algo_result, lo |-> crop.xmin,
                        median_diff |-> [k \in 1..Len(win) |-> full[win[k]]]]
    /\ idx_a' = next_a
    /\ next_a' = next_a + 1
    /\ UNCHANGED <<pc, op, scenes, n_algos, n_rows, with_gt_row, crop, rows,
                   cols, idx_s, next_s, gt, median_result, shown, pixelized,
                   delegated, saved, fig_open, error, log_runtime>>

plot_discont_overview_save ==
    /\ pc = "discont_loop"
    /\ next_a = n_algos
    /\ saved' = Append(saved, <<"discont_%s", "scene.get_name()">>)
    /\ fig_open' = FigsAfterSave(fig_open)
    /\ pc' = "done"
    /\ UNCHANGED <<error, op, scenes, n_algos, n_rows, with_gt_row,
                   log_runtime, crop, rows, cols, idx_s, idx_a, next_s, next_a,
                   gt, median_result, claimed, ylabels, shown, pixelized, last,
                   delegated>>

\* ----------------------------------------------- plot_median_comparisons
SceneSeqs(S) == UNION {[1..n -> S] : n \in 0..MaxScenes}

add_label == idx_s = 0

\* the colorbar put at 3*idx_s+2, on the median-diff panel
MedianPanels_cb_on_diff(a, s) ==
    <<Claim(a * cols + 3 * s, "disp", a), Claim(a * cols + 3 * s + 1, "gt_algo", a),
      Claim(a * cols + 3 * s + 2, "diff", a)>>
    \o (IF s = Len(scenes) - 1
        THEN <<Claim(a * cols + 3 * s + 2, IF a % 2 = 0 THEN "cb1" ELSE "cb2", a)>>
        ELSE <<>>)

MedianPanels(a, s) ==
    <<Claim(a * cols + 3 * s, "disp", a), Claim(a * cols + 3 * s + 1, "gt_algo", a),
      Claim(a * cols + 3 * s + 2, "diff", a)>>
    \o (IF s = Len(scenes) - 1
        THEN <<Claim(a * cols + 3 * s + 2 + 1, IF a % 2 = 0 THEN "cb1" ELSE "cb2", a)>>
        ELSE <<>>)

ReferencePanels(a, s) ==
    <<Claim(a * cols + 3 * s, "ref_gt", a), Claim(a * cols + 3 * s + 1, "ref_diff", a)>>
    \o (IF s = Len(scenes) - 1
        THEN <<Claim(a * cols + 3 * s + 2 + 1, "cb1", a)>>
        ELSE <<>>)

plot_median_comparisons_start ==
    /\ pc = "idle"
    /\ fig_open < MaxOpenFigs
    /\ \E sc \in SceneSeqs([hidden : {FALSE}, category : Categories]),
          A \in 0..MaxAlgos, w \in BOOLEAN :
        /\ scenes' = sc
        /\ n_algos' = A
        /\ with_gt_row' = w
        /\ rows' = A + (IF w THEN 1 ELSE 0)
        /\ cols' = Len(sc) * 3 + 1
        \* scenes[0] of an empty list raises IndexError, after plt.figure
        /\ pc' = IF Len(sc) = 0 THEN "raised" ELSE "median_scene"
        /\ error' = IF Len(sc) = 0 THEN "IndexError" ELSE "none"
    /\ op' = "plot_median_comparisons"
    /\ fig_open' = fig_open + 1
    /\ next_s' = 0
    /\ UNCHANGED <<n_rows, log_runtime, crop, idx_s, idx_a, next_a, gt,
                   median_result, claimed, ylabels, shown, pixelized, last,
                   delegated, saved>>

plot_median_comparisons_scene ==
    /\ pc = "median_scene"
    /\ next_s < Len(scenes)
    /\ idx_s' = next_s
    /\ next_s' = next_s + 1
    /\ \E g \in PlainFields, m \in PlainFields :
        /\ gt' = g
        /\ median_result' = m
    /\ next_a' = 0
    /\ last' = NoLast
    /\ pc' = "median_algo"
    /\ UNCHANGED <<error, op, scenes, n_algos, n_rows, with_gt_row,
                   log_runtime, crop, rows, cols, idx_a, claimed, ylabels,
                   shown, pixelized, delegated, saved, fig_open>>

plot_median_comparisons_algo ==
    /\ pc = "median_algo"
    /\ next_a < n_algos
    /\ \E algo_result \in PlainFields :
        last' = [op |-> op, entry |-> next_a,
                 median_for |-> "PerPixMedianDiff", algo_for |-> next_a,
                 gt |-> gt, median_result |-> median_result,
                 algo_result |-> algo_result, lo |-> 0,
                 median_diff |-> MedianDiff(median_result, gt, algo_result)]
    /\ claimed' = claimed \o MedianPanels(next_a, idx_s)
    /\ ylabels' = IF add_label THEN ylabels \cup {next_a * cols + 3 * idx_s}
                               ELSE ylabels
    /\ idx_a' = next_a
    /\ next_a' = next_a + 1
    /\ UNCHANGED <<pc, op, scenes, n_algos, n_rows, with_gt_row, crop, rows,
                   cols, idx_s, next_s, gt, median_result, shown, pixelized,
                   delegated, saved, fig_open, error, log_runtime>>

\* if with_gt_row: idx_a += 1 reads the loop variable left by the inner loop
plot_median_comparisons_gt_row ==
    /\ pc = "median_algo"
    /\ next_a = n_algos
    /\ with_gt_row
    /\ IF idx_a = Unbound
       THEN \* UnboundLocalError: algorithms is empty, the inner loop bound nothing
            /\ pc' = "raised"
            /\ error' = "UnboundLocalError"
            /\ UNCHANGED <<idx_a, claimed, ylabels>>
       ELSE /\ idx_a' = idx_a + 1
            /\ claimed' = claimed \o ReferencePanels(idx_a + 1, idx_s)
            /\ ylabels' = IF add_label
                          THEN ylabels \cup {(idx_a + 1) * cols + 3 * idx_s}
                          ELSE ylabels
            /\ pc' = "median_scene"
            /\ error' = "none"
    /\ UNCHANGED <<op, scenes, n_algos, n_rows, with_gt_row, log_runtime, crop,
                   rows, cols, idx_s, next_s, next_a, gt, median_result, shown,
                   pixelized, last, delegated, saved, fig_open>>

plot_median_comparisons_no_gt_row ==
    /\ pc = "median_algo"
    /\ next_a = n_algos
    /\ ~with_gt_row
    /\ pc' = "median_scene"
    /\ UNCHANGED <<error, op, scenes, n_algos, n_rows, with_gt_row,
                   log_runtime, crop, rows, cols, idx_s, idx_a, next_s, next_a,
                   gt, median_result, claimed, ylabels, shown, pixelized, last,
                   delegated, saved, fig_open>>

\* scene is the loop variable left by the outer loop: the last scene
plot_median_comparisons_save ==
    /\ pc = "median_scene"
    /\ next_s = Len(scenes)
    /\ saved' = Append(saved, <<"median_comparison_%s", scenes[idx_s + 1].category>>)
    /\ fig_open' = FigsAfterSave(fig_open)
    /\ pc' = "done"
    /\ UNCHANGED <<error, op, scenes, n_algos, n_rows, with_gt_row,
                   log_runtime, crop, rows, cols, idx_s, idx_a, next_s, next_a,
                   gt, median_result, claimed, ylabels, shown, pixelized, last,
                   delegated>>

\* --------------------------------------------------- plot_scene_overview
\* scene.get_gt() of the scene at position s, as the value handed on
GetGt(s) == [what |-> "gt", scene |-> s, pixelized |-> FALSE]

\* plotting.pixelize(gt, noise_factor=0.5): the obscured rendering of gt
Pixelize(g) == [g EXCEPT !.pixelized = TRUE]

\* the ground truth row addressed with rows instead of cols
OverviewPanels_rows(s) ==
    <<Claim(s, "center_view", s), Claim(rows + s, "gt", s)>>

OverviewPanels(s) ==
    <<Claim(s, "center_view", s), Claim(cols + s, "gt", s)>>

\* the ground truth shown as it is, hidden or not
OverviewGt_never_pixelized(s) == GetGt(s)

OverviewGt(s) == IF scenes[s + 1].hidden THEN Pixelize(GetGt(s)) ELSE GetGt(s)

plot_scene_overview_start ==
    /\ pc = "idle"
    /\ fig_open < MaxOpenFigs
    /\ \E sc \in SceneSeqs([hidden : BOOLEAN, category : Categories]) :
        /\ scenes' = sc
        /\ rows' = 2
        /\ cols' = Len(sc)
    /\ op' = "plot_scene_overview"
    /\ fig_open' = fig_open + 1
    /\ next_s' = 0
    /\ pc' = "overview_loop"
    /\ UNCHANGED <<error, n_algos, n_rows, with_gt_row, log_runtime, crop,
                   idx_s, idx_a, next_a, gt, median_result, claimed, ylabels,
                   shown, pixelized, last, delegated, saved>>

plot_scene_overview_iter ==
    /\ pc = "overview_loop"
    /\ next_s < Len(scenes)
    /\ idx_s' = next_s
    /\ next_s' = next_s + 1
    /\ claimed' = claimed \o OverviewPanels(next_s)
    /\ shown' = shown \o
         <<[idx |-> OverviewPanels(next_s)[1].idx,
            img |-> [what |-> "center_view", scene |-> next_s, pixelized |-> FALSE]],
           [idx |-> OverviewPanels(next_s)[2].idx, img |-> OverviewGt(next_s)]>>
    /\ pixelized' = IF scenes[next_s + 1].hidden THEN pixelized \cup {next_s}
                                                 ELSE pixelized
    /\ UNCHANGED <<pc, op, scenes, n_algos, n_rows, with_gt_row, crop, rows,
                   cols, idx_a, next_a, gt, median_result, ylabels, last,
                   delegated, saved, fig_open, error, log_runtime>>

plot_scene_overview_save ==
    /\ pc = "overview_loop"
    /\ next_s = Len(scenes)
    /\ saved' = Append(saved, <<"scenes", "">>)
    /\ fig_open' = FigsAfterSave(fig_open)
    /\ pc' = "done"
    /\ UNCHANGED <<error, op, scenes, n_algos, n_rows, with_gt_row,
                   log_runtime, crop, rows, cols, idx_s, idx_a, next_s, next_a,
                   gt, median_result, claimed, ylabels, shown, pixelized, last,
                   delegated>>

\* ---------------------------------------------- plot_normals_explanation
plot_normals_explanation_start ==
    /\ pc = "idle"
    /\ fig_open < MaxOpenFigs
    /\ op' = "plot_normals_explanation"
    /\ rows' = 1
    /\ cols' = 4
    /\ fig_open' = fig_open + 1
    /\ pc' = "normals_plot"
    /\ UNCHANGED <<error, scenes, n_algos, n_rows, with_gt_row, log_runtime,
                   crop, idx_s, idx_a, next_s, next_a, gt, median_result,
                   claimed, ylabels, shown, pixelized, last, delegated, saved>>

plot_normals_explanation_save ==
    /\ pc = "normals_plot"
    /\ claimed' = <<Claim(0, "gt_normals", 0), Claim(1, "algo_normals", 0),
                    Claim(2, "angular_error", 0), Claim(3, "cb", 0)>>
    /\ saved' = Append(saved, <<"metrics_%s_%s", "scene.get_name(), algorithm.get_name()">>)
    /\ fig_open' = FigsAfterSave(fig_open)
    /\ pc' = "done"
    /\ UNCHANGED <<error, op, scenes, n_algos, n_rows, with_gt_row,
                   log_runtime, crop, rows, cols, idx_s, idx_a, next_s, next_a,
                   gt, median_result, ylabels, shown, pixelized, last,
                   delegated>>

\* ---------------------------------------------------- plot_bad_pix_series
Call(routine, fig_name, metrics, labels, maxima) ==
    [routine |-> routine, fig_name |-> fig_name, n_metrics |-> Len(metrics),
     n_labels |-> Len(labels), n_max |-> Len(maxima)]

\* the photorealistic scene set left out
scene_sets_one == <<"stratified">>

scene_sets == <<"stratified", "photorealistic">>

plot_bad_pix_series_start ==
    /\ pc = "idle"
    /\ op' = "plot_bad_pix_series"
    /\ next_s' = 0
    /\ pc' = "bad_pix_loop"
    /\ UNCHANGED <<error, scenes, n_algos, n_rows, with_gt_row, log_runtime,
                   crop, rows, cols, idx_s, idx_a, next_a, gt, median_result,
                   claimed, ylabels, shown, pixelized, last, delegated, saved,
                   fig_open>>

plot_bad_pix_series_iter ==
    /\ pc = "bad_pix_loop"
    /\ next_s < Len(scene_sets)
    /\ delegated' = Append(delegated,
          Call("bad_pix_series.plot", <<"bad_pix_series_", scene_sets[next_s + 1]>>,
               <<>>, <<>>, <<>>))
    /\ next_s' = next_s + 1
    /\ pc' = IF next_s + 1 = Len(scene_sets) THEN "done" ELSE "bad_pix_loop"
    /\ UNCHANGED <<error, op, scenes, n_algos, n_rows, with_gt_row,
                   log_runtime, crop, rows, cols, idx_s, idx_a, next_a, gt,
                   median_result, claimed, ylabels, shown, pixelized, last,
                   saved, fig_open>>

\* ------------------------------------------------------ plot_radar_charts
base_metrics == <<<<"Runtime", log_runtime>>, "MSE", "Quantile(25)", "BadPix(0.01)", "BadPix(0.03)",
                  "BadPix(0.07)">>

region_metrics == <<"MAEPlanes", "MAEContinSurf", "BumpinessPlanes",
                    "BumpinessContinSurf", "FineFattening", "FineThinning",
                    "Discontinuities">>

\* misc.get_stratified_metrics(): the metrics of the four stratified scenes
stratified_metrics == <<"BackgammonFattening", "BackgammonThinning",
                        "PyramidsSlantedBumpiness", "PyramidsParallelBumpiness",
                        "DotsBackgroundMSE", "MissedDots", "DarkStripes",
                        "BrightStripes", "StripesLowTexture">>

max_per_metric_stratified == <<5, 16, 2, 120, 80, 40, 40, 8, 6, 6, 24, 128, 48, 64, 100>>

\* one maximum short
max_per_metric_photorealistic_short == <<5, 12, 2, 128, 72, 32, 80, 80, 4, 4, 80, 16>>

max_per_metric_photorealistic == <<5, 12, 2, 128, 72, 32, 80, 80, 4, 4, 80, 16, 72>>

\* [m.get_display_name().replace(...) for m in metrics]
metric_names(metrics) == [k \in 1..Len(metrics) |-> <<"display_name", metrics[k]>>]

plot_radar_charts_start ==
    /\ pc = "idle"
    /\ log_runtime' \in BOOLEAN
    /\ op' = "plot_radar_charts"
    /\ pc' = "radar_stratified"
    /\ UNCHANGED <<error, scenes, n_algos, n_rows, with_gt_row, crop, rows,
                   cols, idx_s, idx_a, next_s, next_a, gt, median_result,
                   claimed, ylabels, shown, pixelized, last, delegated, saved,
                   fig_open>>

plot_radar_charts_stratified ==
    /\ pc = "radar_stratified"
    /\ LET metrics == base_metrics \o stratified_metrics
       IN  delegated' = Append(delegated,
             Call("radar_chart.plot", <<"radar_", "stratified">>, metrics,
                  metric_names(metrics), max_per_metric_stratified))
    /\ pc' = "radar_photorealistic"
    /\ UNCHANGED <<error, op, scenes, n_algos, n_rows, with_gt_row,
                   log_runtime, crop, rows, cols, idx_s, idx_a, next_s, next_a,
                   gt, median_result, claimed, ylabels, shown, pixelized, last,
                   saved, fig_open>>

plot_radar_charts_photorealistic ==
    /\ pc = "radar_photorealistic"
    /\ LET metrics == base_metrics \o region_metrics
       IN  delegated' = Append(delegated,
             Call("radar_chart.plot", <<"radar_", "photorealistic">>, metrics,
                  metric_names(metrics), max_per_metric_photorealistic))
    /\ pc' = "radar_compare"
    /\ UNCHANGED <<error, op, scenes, n_algos, n_rows, with_gt_row,
                   log_runtime, crop, rows, cols, idx_s, idx_a, next_s, next_a,
                   gt, median_result, claimed, ylabels, shown, pixelized, last,
                   saved, fig_open>>

plot_radar_charts_compare ==
    /\ pc = "radar_compare"
    /\ LET metrics == base_metrics \o region_metrics
           cmp == Call("radar_chart.compare_relative_performances", <<"", "">>,
                       metrics, <<>>, <<>>)
       IN  delegated' = delegated \o <<cmp, cmp>>
    /\ pc' = "done"
    /\ UNCHANGED <<error, op, scenes, n_algos, n_rows, with_gt_row,
                   log_runtime, crop, rows, cols, idx_s, idx_a, next_s, next_a,
                   gt, median_result, claimed, ylabels, shown, pixelized, last,
                   saved, fig_open>>

\* --------------------------- plot_normals_overview and plot_high_accuracy
plot_normals_overview ==
    /\ pc = "idle"
    /\ op' = "plot_normals_overview"
    /\ delegated' = Append(delegated,
          Call("metric_overviews.plot_normals", <<"", "">>, <<>>, <<>>, <<>>))
    /\ pc' = "done"
    /\ UNCHANGED <<error, scenes, n_algos, n_rows, with_gt_row, log_runtime,
                   crop, rows, cols, idx_s, idx_a, next_s, next_a, gt,
                   median_result, claimed, ylabels, shown, pixelized, last,
                   saved, fig_open>>

plot_high_accuracy ==
    /\ pc = "idle"
    /\ op' = "plot_high_accuracy"
    /\ delegated' = Append(delegated,
          Call("metric_overviews.plot_general_overview", <<"high_accuracy", "">>,
               <<"BadPix(0.07)", "BadPix(0.01)", "Quantile(25)">>, <<>>, <<>>))
    /\ pc' = "done"
    /\ UNCHANGED <<error, scenes, n_algos, n_rows, with_gt_row, log_runtime,
                   crop, rows, cols, idx_s, idx_a, next_s, next_a, gt,
                   median_result, claimed, ylabels, shown, pixelized, last,
                   saved, fig_open>>

\* ------------------------------------------------------------ the process
Init ==
    /\ pc = "idle"
    /\ error = "none"
    /\ op = "none"
    /\ scenes = <<>>
    /\ n_algos = 0
    /\ n_rows = 1
    /\ with_gt_row = FALSE
    /\ log_runtime = TRUE
    /\ crop = [xmin |-> 0, ww |-> 1]
    /\ rows = 0
    /\ cols = 0
    /\ idx_s = Unbound
    /\ idx_a = Unbound
    /\ next_s = 0
    /\ next_a = 0
    /\ gt = NoImage
    /\ median_result = NoImage
    /\ claimed = <<>>
    /\ ylabels = {}
    /\ shown = <<>>
    /\ pixelized = {}
    /\ last = NoLast
    /\ delegated = <<>>
    /\ saved = <<>>
    /\ fig_open = 0

\* the frame of the call is popped: its arguments and locals are gone
FrameDropped ==
    /\ scenes' = <<>>
    /\ n_algos' = 0
    /\ n_rows' = 1
    /\ with_gt_row' = FALSE
    /\ log_runtime' = TRUE
    /\ crop' = [xmin |-> 0, ww |-> 1]
    /\ rows' = 0
    /\ cols' = 0
    /\ idx_s' = Unbound
    /\ idx_a' = Unbound
    /\ next_s' = 0
    /\ next_a' = 0
    /\ gt' = NoImage
    /\ median_result' = NoImage
    /\ claimed' = <<>>
    /\ ylabels' = {}
    /\ shown' = <<>>
    /\ pixelized' = {}
    /\ last' = NoLast
    /\ delegated' = <<>>
    /\ saved' = <<>>

\* a collaborator called by a routine raises; no routine has a try block, so
\* the exception leaves the routine at once
collaborator_raises ==
    /\ pc \notin {"idle", "done", "raised"}
    /\ pc' = "raised"
    /\ error' = "collaborator"
    /\ FrameDropped
    /\ UNCHANGED <<op, fig_open>>

\* the caller takes over again after the return or the exception
call_exit ==
    /\ pc \in {"done", "raised"}
    /\ pc' = "idle"
    /\ error' = "none"
    /\ op' = "none"
    /\ FrameDropped
    /\ UNCHANGED <<fig_open>>

Next ==
    \/ plot_discont_overview_start
    \/ plot_discont_overview_iter
    \/ plot_discont_overview_save
    \/ plot_median_comparisons_start
    \/ plot_median_comparisons_scene
    \/ plot_median_comparisons_algo
    \/ plot_median_comparisons_gt_row
    \/ plot_median_comparisons_no_gt_row
    \/ plot_median_comparisons_save
    \/ plot_scene_overview_start
    \/ plot_scene_overview_iter
    \/ plot_scene_overview_save
    \/ plot_normals_explanation_start
    \/ plot_normals_explanation_save
    \/ plot_bad_pix_series_start
    \/ plot_bad_pix_series_iter
    \/ plot_radar_charts_start
    \/ plot_radar_charts_stratified
    \/ plot_radar_charts_photorealistic
    \/ plot_radar_charts_compare
    \/ plot_normals_overview
    \/ plot_high_accuracy
    \/ collaborator_raises
    \/ call_exit

Spec == Init /\ [][Next]_vars

\* =================================================================== claims
InCall(name) == op = name /\ error \notin {"collaborator", "IndexError"}
Finished(name) == op = name /\ pc = "done"
Indices == {claimed[k].idx : k \in 1..Len(claimed)}
NoOverlap == \A j, k \in 1..Len(claimed) : j # k => claimed[j].idx # claimed[k].idx
InGrid == \A k \in 1..Len(claimed) : 0 <= claimed[k].idx /\ claimed[k].idx < rows * cols
Panel(i, role, entry) == \E k \in 1..Len(claimed) : claimed[k] = Claim(i, role, entry)
\* the least e with e * n >= a, i.e. ceil(a / n)
IsCeil(e, a, n) == e * n >= a /\ (e - 1) * n < a

\* C1: in plot_discont_overview the grid has 2*n_rows rows and
\* ceil((N+1)/n_rows)+1 columns, every subplot index computed lies in
\* [0, rows*cols), no two panels claim the same index, and once the loop is
\* over every algorithm entry idx has its disparity panel at
\* idx_row*cols+idx_col and its median-diff panel one grid row below.
C1_DiscontIndicesTile ==
    InCall("plot_discont_overview") =>
        /\ rows = 2 * n_rows
        /\ IsCeil(cols - 1, n_algos + 1, n_rows)
        /\ InGrid
        /\ NoOverlap
        /\ Panel(0, "center", 0)
        /\ Panel(cols, "label", 0)
        /\ pc = "done" =>
            \A idx \in 1..n_algos :
                LET e == cols - 1
                    r == (idx \div e) * 2
                    c == idx % e
                IN  /\ Panel(r * cols + c, "disp", idx)
                    /\ Panel((r + 1) * cols + c, "diff", idx)

C1_Witness ==
    /\ Finished("plot_discont_overview")
    /\ n_algos = 3
    /\ n_rows = 2
    /\ Len(claimed) = rows * cols

\* C2: in plot_median_comparisons the grid has A + int(with_gt_row) rows and
\* 3*S+1 columns, every subplot index computed lies in [0, rows*cols), no two
\* panels claim the same index, every reference panel lies in row A, and a
\* completed call has the three panels of every (scene, algorithm) pair.
C2_MedianIndicesTile ==
    InCall("plot_median_comparisons") =>
        /\ rows = n_algos + (IF with_gt_row THEN 1 ELSE 0)
        /\ cols = 3 * Len(scenes) + 1
        /\ InGrid
        /\ NoOverlap
        /\ \A k \in 1..Len(claimed) :
              claimed[k].role \in {"ref_gt", "ref_diff"} =>
                  claimed[k].idx \div cols = n_algos
        /\ pc = "done" =>
            \A s \in 0..(Len(scenes) - 1), a \in 0..(n_algos - 1) :
                /\ Panel(a * cols + 3 * s, "disp", a)
                /\ Panel(a * cols + 3 * s + 1, "gt_algo", a)
                /\ Panel(a * cols + 3 * s + 2, "diff", a)
                /\ s = Len(scenes) - 1 =>
                      \E k \in 1..Len(claimed) :
                          /\ claimed[k].idx = a * cols + 3 * s + 3
                          /\ claimed[k].role \in {"cb1", "cb2"}

C2_Witness ==
    /\ Finished("plot_median_comparisons")
    /\ Len(scenes) = 2
    /\ n_algos = 2
    /\ with_gt_row
    /\ Len(claimed) = 19

\* C3: no figure stays open once a call has ended, whether it returned or
\* raised.
C3_FigureReleasedOnEveryExit ==
    pc \in {"idle", "done", "raised"} => fig_open = 0

\* C4: every pixel of the median-diff handed to imshow equals
\* |median_result - gt| - |algo_result - gt| at the source pixel it shows,
\* median_result being the result fetched for PerPixMedianDiff, and it is
\* strictly positive exactly when the algorithm's absolute error there is
\* smaller than the median baseline's.
C4_MedianDiffFormula ==
    last.op # "none" =>
        /\ last.median_for = "PerPixMedianDiff"
        /\ last.gt = gt
        /\ last.median_result = median_result
        /\ Len(last.median_diff) =
              (IF last.op = "plot_discont_overview"
               THEN (IF last.lo + crop.ww < Len(gt) THEN last.lo + crop.ww ELSE Len(gt))
                    - last.lo
               ELSE Len(gt))
        /\ \A k \in 1..Len(last.median_diff) :
              LET p == last.lo + k
                  em == IF last.median_result[p] >= last.gt[p]
                        THEN last.median_result[p] - last.gt[p]
                        ELSE last.gt[p] - last.median_result[p]
                  ea == IF last.algo_result[p] >= last.gt[p]
                        THEN last.algo_result[p] - last.gt[p]
                        ELSE last.gt[p] - last.algo_result[p]
              IN  /\ last.median_diff[k] = em - ea
                  /\ (last.median_diff[k] > 0) <=> (ea < em)

C4_Witness ==
    /\ last.op = "plot_discont_overview"
    /\ last.lo = 1
    /\ last.median_diff = <<1>>
    /\ last.gt[1] # last.gt[2]

C4_WitnessMedian ==
    /\ last.op = "plot_median_comparisons"
    /\ last.median_diff = <<-1>>

SharedCategory == \A j, k \in 1..Len(scenes) : scenes[j].category = scenes[k].category

\* C5: a call of plot_median_comparisons with S >= 1 scenes of one category and
\* any A algorithms, none of whose collaborators raised, ends having prepared
\* a grid of A + int(with_gt_row) rows and 3*S+1 columns and written exactly
\* one file, named median_comparison_<the shared category>.
C5_MedianComparisonWritesOneFile ==
    ( /\ op = "plot_median_comparisons"
      /\ pc \in {"done", "raised"}
      /\ error # "collaborator"
      /\ Len(scenes) >= 1
      /\ SharedCategory )
    => /\ pc = "done"
       /\ rows = n_algos + (IF with_gt_row THEN 1 ELSE 0)
       /\ cols = 3 * Len(scenes) + 1
       /\ saved = << <<"median_comparison_%s", scenes[1].category>> >>

\* C6: in plot_scene_overview the ground truth handed to imshow is the output
\* of plotting.pixelize exactly for the scenes whose hidden_gt() is true, and
\* exactly those scenes' ground truth was passed to plotting.pixelize.
C6_HiddenGtObscured ==
    InCall("plot_scene_overview") =>
        /\ \A k \in 1..Len(shown) :
              shown[k].img.what = "gt" =>
                  (shown[k].img.pixelized <=> scenes[shown[k].img.scene + 1].hidden)
        /\ \A s \in 0..(next_s - 1) :
              /\ (s \in pixelized) <=> scenes[s + 1].hidden
              /\ \E k \in 1..Len(shown) :
                    shown[k].img.what = "gt" /\ shown[k].img.scene = s
        /\ pixelized \subseteq 0..(next_s - 1)

C6_Witness ==
    /\ Finished("plot_scene_overview")
    /\ \E j, k \in 1..Len(scenes) : scenes[j].hidden /\ ~scenes[k].hidden

\* the image files a completed call has produced: one per save_tight_figure
\* call and one per plot call forwarded to a collaborator
FilesProduced ==
    Len(saved) + Cardinality({k \in 1..Len(delegated) :
        delegated[k].routine \in {"bad_pix_series.plot", "radar_chart.plot",
                                  "metric_overviews.plot_normals",
                                  "metric_overviews.plot_general_overview"}})

FigureRoutines == {"plot_scene_overview", "plot_normals_explanation",
                   "plot_discont_overview", "plot_median_comparisons"}

\* C7 (as claimed): every routine produces exactly one saved image file per
\* invocation that completes without error.
C7_OneFilePerInvocation ==
    pc = "done" => FilesProduced = 1

\* C7 (amended): a completed call of a routine that creates a figure calls
\* save_tight_figure exactly once and forwards nothing; plot_normals_overview
\* and plot_high_accuracy forward exactly one plot call; plot_bad_pix_series
\* and plot_radar_charts each forward two plot calls with two different
\* figure names, so they produce two figures.
C7_FilesPerInvocation ==
    pc = "done" =>
        /\ op \in FigureRoutines => Len(saved) = 1 /\ delegated = <<>>
        /\ op \in {"plot_normals_overview", "plot_high_accuracy"} =>
              saved = <<>> /\ Len(delegated) = 1 /\ FilesProduced = 1
        /\ op \in {"plot_bad_pix_series", "plot_radar_charts"} =>
              /\ saved = <<>>
              /\ FilesProduced = 2
              /\ delegated[1].fig_name # delegated[2].fig_name
              /\ delegated[1].routine = delegated[2].routine

C7_Witness ==
    /\ Finished("plot_bad_pix_series")
    /\ Len(delegated) = 2

C9_SceneOverviewGrid ==
    InCall("plot_scene_overview") =>
        /\ rows = 2
        /\ cols = Len(scenes)
        /\ InGrid
        /\ NoOverlap
        /\ Len(claimed) = 2 * next_s
        /\ \A s \in 0..(next_s - 1) :
              /\ Panel(s, "center_view", s)
              /\ Panel(Len(scenes) + s, "gt", s)
        /\ \A k \in 1..Len(shown) :
              shown[k].idx = (IF shown[k].img.what = "gt" THEN Len(scenes) ELSE 0)
                             + shown[k].img.scene
        /\ pc = "done" => Indices = 0..(2 * Len(scenes) - 1)

C9_Witness ==
    /\ Finished("plot_scene_overview")
    /\ Len(scenes) = 2
    /\ Len(claimed) = 4

\* the entries of plot_discont_overview drawn so far
Entries == IF pc = "done" THEN 1..n_algos ELSE 1..next_a
HasLabels(idx) ==
    LET e == cols - 1
        top == ((idx \div e) * 2) * cols + (idx % e)
    IN  top \in ylabels /\ (top + cols) \in ylabels
NoLabels(idx) ==
    LET e == cols - 1
        top == ((idx \div e) * 2) * cols + (idx % e)
    IN  top \notin ylabels /\ (top + cols) \notin ylabels
Colorbars(idx) == {k \in 1..Len(claimed) :
    claimed[k].entry = idx /\ claimed[k].role \in {"cb_disp", "cb_diff"}}
EntryRules ==
    \A idx \in Entries :
        LET e == cols - 1
        IN  /\ IF idx % e = 0 THEN HasLabels(idx) ELSE NoLabels(idx)
            /\ Cardinality(Colorbars(idx)) = (IF idx % e = e - 1 THEN 2 ELSE 0)
            /\ \A k \in Colorbars(idx) :
                  /\ claimed[k].idx % cols = cols - 1
                  /\ claimed[k].idx \div cols =
                        (idx \div e) * 2 + (IF claimed[k].role = "cb_disp" THEN 0 ELSE 1)
SuperRowLabelled(r) == (2 * r) * cols \in ylabels /\ (2 * r + 1) * cols \in ylabels

\* C10 (as claimed): an entry has the y-axis labels exactly when it is first in
\* its super-row and two colorbars, in the last grid column, exactly when it is
\* last in it; and the first column of each super-row carries a y-axis label.
C10_LabelsAndColorbars ==
    InCall("plot_discont_overview") /\ pc \in {"discont_loop", "done"} =>
        /\ EntryRules
        /\ pc = "done" => \A r \in 0..(n_rows - 1) : SuperRowLabelled(r)

\* C10 (amended): the same, the last part for each super-row that holds at
\* least one entry (super-row 0, and each super-row r with r * n_entries_per_row
\* <= N); a super-row without entries carries no label.
C10_LabelsAndColorbarsNonEmptyRows ==
    InCall("plot_discont_overview") /\ pc \in {"discont_loop", "done"} =>
        /\ EntryRules
        /\ pc = "done" =>
              \A r \in 0..(n_rows - 1) :
                  IF r = 0 \/ r * (cols - 1) <= n_algos
                  THEN SuperRowLabelled(r)
                  ELSE (2 * r) * cols \notin ylabels /\ (2 * r + 1) * cols \notin ylabels

C10_Witness ==
    /\ Finished("plot_discont_overview")
    /\ n_algos = 3
    /\ n_rows = 2
    /\ ylabels = {0, 3, 6, 9}
    /\ Cardinality(Colorbars(1)) = 2
    /\ Cardinality(Colorbars(2)) = 0
====
